---- MODULE Spec2Model ----
(***************************************************************************)
(* Model of the 3D scanner subsystem (src/main/scanner_subsystem):         *)
(* the controller Scanner3D.run / perform_scan, the image pipeline         *)
(* ImageProcessor.process_image / extract_coordinates /                    *)
(* downsample_coordinates, and MeshGenerator.normalize_mesh_points /       *)
(* generate_mesh.                                                          *)
(*                                                                         *)
(* Conventions.  Python lists are sequences; a Python index i is the       *)
(* sequence index i+1, and row numbers, bottom_row and segment bounds keep *)
(* their 0-based Python values.  Floating-point quantities are fixed-point *)
(* integers: lengths in 1e-6 mm, angles in 1e-3 degree and 1e-6 radian.    *)
(***************************************************************************)
EXTENDS Integers, Sequences, FiniteSets, TLC

VARIABLES
    pc,                  \* position of the controller in run()/perform_scan()
    relay1, relay2,      \* gpiozero OutputDevice states
    green_led, red_led,  \* LED states: "off" or "pulse"
    motor_log,           \* rotate_angle commands issued in this loop iteration
    img,                 \* thresholded raster red_line of the current capture
    processed_img,       \* backG returned by process_image
    bottom_row,          \* height reference returned by process_image
    coords,              \* ScanLine of the current capture
    vertical_resolution, \* Scanner3D.vertical_resolution
    theta,               \* capture angle, 1e-3 degree
    scan_step,           \* loop variable of perform_scan
    mesh_points,         \* rotation buffer
    points, faces,       \* result of generate_mesh
    obj_file,            \* scanned.obj: "absent" or "written"
    results,             \* overall_sizing returned by QCInspector.inspect
    gpio_released,       \* the finally block of run() has run
    error,               \* exception that ended run(), or "none"
    sensor_pc,           \* position in wait_for_part_placement
    confirm_count,       \* confirm_count of wait_for_part_placement
    recent,              \* history: the last valid readings of each wait loop
    lid_log,             \* history: the last two directions commanded to the lid
    raw_coords,          \* history: coords as extract_coordinates returned it
    captured,            \* history: the ScanLine of every capture of this rotation
    scan_input,          \* history: mesh_points as perform_scan returned it
    calls                \* history: calls made in this loop iteration

vars == <<pc, relay1, relay2, green_led, red_led, motor_log, img, processed_img,
          bottom_row, coords, vertical_resolution, theta, scan_step, mesh_points,
          points, faces, obj_file, results, gpio_released, error,
          sensor_pc, confirm_count, recent, lid_log,
          raw_coords, captured, scan_input, calls>>

(***************************************************************************)
(* Bounds of the model.                                                    *)
(***************************************************************************)
AngularResolution == 3   \* captures per rotation (the deployment uses 40)
RunH == 18               \* raster height of the captures drawn in run()
ImgW == 2                \* raster width
MaxRows == 4             \* rows of a rotation buffer drawn for mesh generation
MaxLen == 5              \* samples per drawn ScanLine of a rotation buffer
MaxN == 12               \* samples of a ScanLine drawn for the downsampler
MaxV == 5                \* vertical resolutions drawn for the downsampler
MaxGap == 2              \* absent rows between two drawn stripe runs
ImgH == 70               \* raster height of the rasters drawn for process_image

(***************************************************************************)
(* Program constants.                                                      *)
(***************************************************************************)
VerticalResolution == 50
REMOVE_BOTTOM_ROWS == 15
MIN_SEGMENT_LENGTH == 10
CenterColumn == 352
HeightMicroPerPixel == 119069
RadialMicroPerPixel == 157199
HEIGHT_SCALE_MILLI == 188
RADIAL_SCALE_MILLI == 157
ToleranceCenti == 125
ConfirmationsRequired == 3
DetectionThreshold == 12

(***************************************************************************)
(* Arithmetic helpers.                                                     *)
(***************************************************************************)
Abs(a) == IF a < 0 THEN -a ELSE a

Min2(a, b) == IF a <= b THEN a ELSE b

Max2(a, b) == IF a >= b THEN a ELSE b

\* Python int(): truncation toward zero of a / b, b > 0
TruncDiv(a, b) == IF a >= 0 THEN a \div b ELSE -((-a) \div b)

\* a * m / 1000 without leaving 32 bits, truncated toward zero
MulMilli(a, m) ==
    LET s == IF (a < 0) = (m < 0) THEN 1 ELSE -1
        x == Abs(a)
        y == Abs(m)
    IN  s * ((x \div 1000) * y + ((x % 1000) * y) \div 1000)

SeqMin(s) == CHOOSE m \in {s[i] : i \in 1..Len(s)} : \A i \in 1..Len(s) : m <= s[i]

SeqMax(s) == CHOOSE m \in {s[i] : i \in 1..Len(s)} : \A i \in 1..Len(s) : s[i] <= m

\* The loops over a range below are folds of their body: the range is split in
\* two halves and the first half is evaluated before the second is entered,
\* which keeps the evaluation depth logarithmic in the length of the range.

(***************************************************************************)
(* ImageProcessor.process_image, from the thresholded raster red_line on.  *)
(* A raster is a sequence of rows, a row a sequence of pixel values.       *)
(***************************************************************************)

\* an argmax that returns the index of the last maximal pixel
ArgMaxLast(row) ==
    LET m == SeqMax(row)
    IN  (CHOOSE c \in 1..Len(row) :
            /\ row[c] = m
            /\ \A d \in (c + 1)..Len(row) : row[d] # m) - 1

\* np.argmax of one row: the 0-based index of the first maximal pixel
ArgMax(row) ==
    LET m == SeqMax(row)
    IN  (CHOOSE c \in 1..Len(row) :
            /\ row[c] = m
            /\ \A d \in 1..(c - 1) : row[d] # m) - 1

\* the per-row detection array: first nonzero column, or -1
DetectedCols(red_line) ==
    [r \in 1..Len(red_line) |->
        LET c_index == ArgMax(red_line[r])
        IN  IF red_line[r][c_index + 1] # 0 THEN c_index ELSE -1]

\* the fixed trim of the last REMOVE_BOTTOM_ROWS rows
RemoveBottomRows(detected_cols) ==
    LET h == Len(detected_cols)
    IN  [r \in 1..h |->
            IF r - 1 >= Max2(0, h - REMOVE_BOTTOM_ROWS) THEN -1 ELSE detected_cols[r]]

\* the body of the loop over r in range(h) that collects the continuous
\* sequences; st.start is current_sequence_start
SequenceStep(detected_cols, st, r) ==
    IF detected_cols[r + 1] # -1
    THEN IF st.start = -1 THEN [st EXCEPT !.start = r] ELSE st
    ELSE IF st.start # -1
         THEN [start |-> -1, sequences |-> Append(st.sequences, <<st.start, r - 1>>)]
         ELSE st

\* for r in range(lo, hi + 1): st = SequenceStep(st, r)
RECURSIVE SequenceLoop(_, _, _, _)
SequenceLoop(detected_cols, st, lo, hi) ==
    IF lo > hi THEN st
    ELSE IF lo = hi THEN SequenceStep(detected_cols, st, lo)
    ELSE LET mid == (lo + hi) \div 2
             left == SequenceLoop(detected_cols, st, lo, mid)
         IN  IF left = left THEN SequenceLoop(detected_cols, left, mid + 1, hi) ELSE st

\* the loop, and the final sequence that is still open after it
FindSequences(detected_cols) ==
    LET st == SequenceLoop(detected_cols, [start |-> -1, sequences |-> <<>>],
                           0, Len(detected_cols) - 1)
    IN  IF st.start # -1
        THEN Append(st.sequences, <<st.start, Len(detected_cols) - 1>>)
        ELSE st.sequences

\* the filter with > in place of >=
IsLongerThanMinimum(seg) == (seg[2] - seg[1] + 1) > MIN_SEGMENT_LENGTH

IsLongEnough(seg) == (seg[2] - seg[1] + 1) >= MIN_SEGMENT_LENGTH

ValidSegments(sequences) == SelectSeq(sequences, IsLongEnough)

\* the body of the fallback search at row r: the first detection sets
\* bottom_row and breaks
LastDetectedStep(detected_cols, st, r) ==
    IF ~st.found /\ detected_cols[r + 1] # -1
    THEN [found |-> TRUE, bottom_row |-> r]
    ELSE st

\* for r in range(hi, lo - 1, -1): st = LastDetectedStep(st, r)
RECURSIVE LastDetectedLoop(_, _, _, _)
LastDetectedLoop(detected_cols, st, lo, hi) ==
    IF lo > hi THEN st
    ELSE IF lo = hi THEN LastDetectedStep(detected_cols, st, lo)
    ELSE LET mid == (lo + hi) \div 2
             upper == LastDetectedLoop(detected_cols, st, mid + 1, hi)
         IN  IF upper = upper THEN LastDetectedLoop(detected_cols, upper, lo, mid) ELSE st

\* the fallback search for r in range(h - 1, -1, -1), which breaks at the first
\* detection; bottom_row stays 0 when nothing is found
LastDetectedRow(detected_cols) ==
    LastDetectedLoop(detected_cols, [found |-> FALSE, bottom_row |-> 0],
                     0, Len(detected_cols) - 1).bottom_row

\* the height reference taken one row past the end of the lowest segment
BottomRowPastEnd(valid_segments, detected_cols) ==
    IF Len(valid_segments) > 0
    THEN SeqMax([i \in 1..Len(valid_segments) |-> valid_segments[i][2]]) + 1
    ELSE LastDetectedRow(detected_cols)

BottomRow(valid_segments, detected_cols) ==
    IF Len(valid_segments) > 0
    THEN SeqMax([i \in 1..Len(valid_segments) |-> valid_segments[i][2]])
    ELSE LastDetectedRow(detected_cols)

\* connectors drawn across one absent row: next_start == current_end + 2
ConnectorColsAcrossGap(smoothed_cols, valid_segments, r) ==
    UNION { LET current_end == valid_segments[i][2]
                next_start == valid_segments[i + 1][1]
                col_current == smoothed_cols[current_end + 1]
                col_next == smoothed_cols[next_start + 1]
            IN  IF /\ next_start = current_end + 2
                   /\ next_start = r
                   /\ col_current # -1
                   /\ col_next # -1
                THEN Min2(col_current, col_next)..Max2(col_current, col_next)
                ELSE {}
          : i \in 1..(Len(valid_segments) - 1) }

\* the connector drawn on row r (0-based) by the second pass, as a set of columns
ConnectorCols(smoothed_cols, valid_segments, r) ==
    UNION { LET current_end == valid_segments[i][2]
                next_start == valid_segments[i + 1][1]
                col_current == smoothed_cols[current_end + 1]
                col_next == smoothed_cols[next_start + 1]
            IN  IF /\ next_start = current_end + 1
                   /\ next_start = r
                   /\ col_current # -1
                   /\ col_next # -1
                THEN Min2(col_current, col_next)..Max2(col_current, col_next)
                ELSE {}
          : i \in 1..(Len(valid_segments) - 1) }

\* backG: the detected points and the horizontal connectors
DrawBackG(smoothed_cols, valid_segments, w) ==
    [r \in 1..Len(smoothed_cols) |->
        [c \in 1..w |->
            IF \/ (smoothed_cols[r] # -1 /\ smoothed_cols[r] = c - 1)
               \/ (c - 1) \in ConnectorCols(smoothed_cols, valid_segments, r - 1)
            THEN 1 ELSE 0]]

ProcessImage(red_line) ==
    LET h == Len(red_line)
        w == Len(red_line[1])
        detected_cols == RemoveBottomRows(DetectedCols(red_line))
        valid_segments == ValidSegments(FindSequences(detected_cols))
    IN  [backG |-> DrawBackG(detected_cols, valid_segments, w),
         bottom_row |-> BottomRow(valid_segments, detected_cols)]

(***************************************************************************)
(* ImageProcessor.extract_coordinates and downsample_coordinates.          *)
(* A sample is the Vertex(height_mm, radians(theta), dist_mm).             *)
(***************************************************************************)

\* np.radians: 1e-3 degree to 1e-6 radian
Radians(mdeg) == (mdeg \div 1000) * 17453 + ((mdeg % 1000) * 17453) \div 1000

Vertex(x, y, z) == [x |-> x, y |-> y, z |-> z]

\* the body of the loop over the rows of processed_img
ExtractStep(img_rows, bottom, th, acc, r) ==
    LET c_index == ArgMax(img_rows[r + 1])
    IN  IF img_rows[r + 1][c_index + 1] = 1 /\ ~(r > bottom)
        THEN Append(acc, Vertex((bottom - r) * HeightMicroPerPixel,
                                Radians(th),
                                (c_index - CenterColumn) * RadialMicroPerPixel))
        ELSE acc

\* for r in range(lo, hi + 1): acc = ExtractStep(acc, r)
RECURSIVE ExtractLoop(_, _, _, _, _, _)
ExtractLoop(img_rows, bottom, th, acc, lo, hi) ==
    IF lo > hi THEN acc
    ELSE IF lo = hi THEN ExtractStep(img_rows, bottom, th, acc, lo)
    ELSE LET mid == (lo + hi) \div 2
             left == ExtractLoop(img_rows, bottom, th, acc, lo, mid)
         IN  IF left = left THEN ExtractLoop(img_rows, bottom, th, left, mid + 1, hi)
             ELSE acc

ExtractCoordinates(img_rows, bottom, th) ==
    ExtractLoop(img_rows, bottom, th, <<>>, 0, Len(img_rows) - 1)

\* the stride loop running to range(1, n) instead of range(1, n - 1)
StrideLastToEnd(n) == n - 1

\* the last index of range(1, len(coords) - 1)
StrideLast(n) == n - 2

\* the body of the stride loop
StrideStep(line, interval, acc, i) ==
    IF i % interval = 0 THEN Append(acc, line[i + 1]) ELSE acc

\* for i in range(lo, hi + 1): acc = StrideStep(acc, i)
RECURSIVE StrideLoop(_, _, _, _, _)
StrideLoop(line, interval, acc, lo, hi) ==
    IF lo > hi THEN acc
    ELSE IF lo = hi THEN StrideStep(line, interval, acc, lo)
    ELSE LET mid == (lo + hi) \div 2
             left == StrideLoop(line, interval, acc, lo, mid)
         IN  IF left = left THEN StrideLoop(line, interval, left, mid + 1, hi) ELSE acc

\* the interval computed as vertical_resolution // len(coords)
DownsampleSwapped(line, vres) ==
    IF Len(line) = 0 THEN <<>>
    ELSE LET interval == vres \div Len(line)
         IN  IF interval = 0 THEN line
             ELSE Append(StrideLoop(line, interval, <<line[1]>>, 1, StrideLast(Len(line))),
                         line[Len(line)])

DownsampleCoordinates(line, vres) ==
    IF Len(line) = 0 THEN <<>>
    ELSE LET interval == Len(line) \div vres
         IN  IF interval = 0 THEN line
             ELSE Append(StrideLoop(line, interval, <<line[1]>>, 1, StrideLast(Len(line))),
                         line[Len(line)])

(***************************************************************************)
(* MeshGenerator.                                                          *)
(***************************************************************************)

\* cos on [0, pi/2], argument in 1e-3 radian, value in 1e-3
CosQuadrant(x) ==
    LET t1 == MulMilli(x, x)
        t2 == MulMilli(t1, t1)
        t3 == MulMilli(t2, t1)
        t4 == MulMilli(t2, t2)
    IN  1000 - (t1 \div 2) + (t2 \div 24) - (t3 \div 720) + (t4 \div 40320)

\* math.cos, argument in 1e-3 radian, value in 1e-3
CosMilli(m) ==
    LET r == m % 6283
        a == IF r > 3142 THEN 6283 - r ELSE r
    IN  IF a > 1571 THEN -CosQuadrant(3142 - a) ELSE CosQuadrant(a)

\* math.sin
SinMilli(m) == CosMilli(m + 6283 - 1571)

cylindrical_to_cartesian(coord) ==
    LET height == MulMilli(coord.x, HEIGHT_SCALE_MILLI)
        th == coord.y \div 1000
        dist == MulMilli(coord.z, RADIAL_SCALE_MILLI)
    IN  Vertex(TruncDiv(MulMilli(dist, CosMilli(th)), 1000000),
               TruncDiv(MulMilli(dist, SinMilli(th)), 1000000),
               TruncDiv(height, 1000000))

\* list.pop(-1) in place of pop(-2)
PopMinus1(line) == SubSeq(line, 1, Len(line) - 1)

\* list.pop(-2)
PopMinus2(line) == SubSeq(line, 1, Len(line) - 2) \o <<line[Len(line)]>>

\* while len(line) > shortest: line.pop(-2); a pop that finds fewer than two
\* elements raises IndexError, reported as the line <<"IndexError">>
RECURSIVE TrimLine(_, _)
TrimLine(line, shortest) ==
    IF Len(line) > shortest
    THEN IF Len(line) < 2 THEN <<"IndexError">>
         ELSE TrimLine(PopMinus2(line), shortest)
    ELSE line

normalize_mesh_points(rows) ==
    IF Len(rows) = 0 THEN [raised |-> "none", rows |-> rows]
    ELSE LET shortest == SeqMin([i \in 1..Len(rows) |-> Len(rows[i])])
             trimmed == [i \in 1..Len(rows) |-> TrimLine(rows[i], shortest)]
         IN  IF shortest = 0 /\ \E i \in 1..Len(rows) : Len(rows[i]) > 0
             THEN [raised |-> "IndexError", rows |-> rows]
             ELSE [raised |-> "none", rows |-> trimmed]

Face(v1, v2, v3) == [v1 |-> v1, v2 |-> v2, v3 |-> v3]

\* QuadFaces with tl computed one id too far
QuadFacesOffByOne(index_start, point_idx, prev_row, first_row, is_last) ==
    LET tl == index_start + point_idx + 2
        bl == tl + 1
        tr == prev_row[point_idx + 1]
        br == prev_row[point_idx + 2]
    IN  <<Face(tl, tr, bl), Face(bl, tr, br)>>
        \o (IF is_last
            THEN LET tl_close == first_row[point_idx + 1]
                     bl_close == first_row[point_idx + 2]
                 IN  <<Face(tl_close, tl, bl_close), Face(bl_close, tl, bl)>>
            ELSE <<>>)

\* QuadFaces with every quad split along the other diagonal
QuadFacesOtherDiagonal(index_start, point_idx, prev_row, first_row, is_last) ==
    LET tl == index_start + point_idx + 1
        bl == tl + 1
        tr == prev_row[point_idx + 1]
        br == prev_row[point_idx + 2]
    IN  <<Face(tl, tr, br), Face(tl, br, bl)>>
        \o (IF is_last
            THEN LET tl_close == first_row[point_idx + 1]
                     bl_close == first_row[point_idx + 2]
                 IN  <<Face(tl_close, tl, bl), Face(tl_close, bl, bl_close)>>
            ELSE <<>>)

\* QuadFaces with the second triangle of every quad wound the other way
QuadFacesFlipped(index_start, point_idx, prev_row, first_row, is_last) ==
    LET tl == index_start + point_idx + 1
        bl == tl + 1
        tr == prev_row[point_idx + 1]
        br == prev_row[point_idx + 2]
    IN  <<Face(tl, tr, bl), Face(bl, br, tr)>>
        \o (IF is_last
            THEN LET tl_close == first_row[point_idx + 1]
                     bl_close == first_row[point_idx + 2]
                 IN  <<Face(tl_close, tl, bl_close), Face(bl_close, bl, tl)>>
            ELSE <<>>)

\* the faces appended for one point_idx of one row
QuadFaces(index_start, point_idx, prev_row, first_row, is_last) ==
    LET tl == index_start + point_idx + 1
        bl == tl + 1
        tr == prev_row[point_idx + 1]
        br == prev_row[point_idx + 2]
    IN  <<Face(tl, tr, bl), Face(bl, tr, br)>>
        \o (IF is_last
            THEN LET tl_close == first_row[point_idx + 1]
                     bl_close == first_row[point_idx + 2]
                 IN  <<Face(tl_close, tl, bl_close), Face(bl_close, tl, bl)>>
            ELSE <<>>)

RECURSIVE RowFaces(_, _, _, _, _, _)
RowFaces(n, index_start, point_idx, prev_row, first_row, is_last) ==
    IF point_idx >= n - 1 THEN <<>>
    ELSE QuadFaces(index_start, point_idx, prev_row, first_row, is_last)
         \o RowFaces(n, index_start, point_idx + 1, prev_row, first_row, is_last)

\* the ids collected in current_row: tl of every point_idx, and bl of the last
CurrentRow(n, index_start) ==
    IF n < 2 THEN <<>> ELSE [k \in 1..n |-> index_start + k]

\* the loop over the rows after the first; col_idx is the 0-based row
RECURSIVE MeshRows(_, _, _, _, _, _)
MeshRows(rows, col_idx, prev_row, first_row, pts, fcs) ==
    IF col_idx >= Len(rows)
    THEN [raised |-> "none", points |-> pts, faces |-> fcs]
    ELSE LET column == rows[col_idx + 1]
             n == Len(column)
             is_last == (col_idx = Len(rows) - 1)
         IN  IF \/ Len(prev_row) = 0
                \/ (n >= 2 /\ Len(prev_row) < n)
                \/ (n >= 2 /\ is_last /\ Len(first_row) < n)
             THEN [raised |-> "IndexError", points |-> <<>>, faces |-> <<>>]
             ELSE LET index_start == prev_row[Len(prev_row)]
                  IN  MeshRows(rows, col_idx + 1,
                               CurrentRow(n, index_start), first_row,
                               pts \o (IF n < 2 THEN <<>>
                                       ELSE [k \in 1..n |->
                                                cylindrical_to_cartesian(column[k])]),
                               fcs \o RowFaces(n, index_start, 0, prev_row,
                                               first_row, is_last))

generate_mesh(rows) ==
    IF Len(rows) = 0
    THEN [raised |-> "IndexError", points |-> <<>>, faces |-> <<>>]
    ELSE LET first_row == [i \in 1..Len(rows[1]) |-> i]
         IN  MeshRows(rows, 1, first_row, first_row,
                      [i \in 1..Len(rows[1]) |-> cylindrical_to_cartesian(rows[1][i])],
                      <<>>)

(***************************************************************************)
(* Rasters and ScanLines the model draws.                                  *)
(***************************************************************************)

\* a raster of h rows and w columns with one lit pixel, at column col, on
\* every row of every run <<start, len>> of runs
RasterOf(h, w, runs, col) ==
    [r \in 1..h |->
        [c \in 1..w |->
            IF /\ c - 1 = col
               /\ \E i \in 1..Len(runs) :
                      /\ runs[i][1] <= r - 1
                      /\ r - 1 < runs[i][1] + runs[i][2]
            THEN 255 ELSE 0]]

\* the same raster with every column of cols lit on the rows of the runs
WideRasterOf(h, w, runs, cols) ==
    [r \in 1..h |->
        [c \in 1..w |->
            IF /\ (c - 1) \in cols
               /\ \E i \in 1..Len(runs) :
                      /\ runs[i][1] <= r - 1
                      /\ r - 1 < runs[i][1] + runs[i][2]
            THEN 255 ELSE 0]]

\* a stripe of two runs of MIN_SEGMENT_LENGTH rows, the first at column 0 and
\* the second, gap absent rows further down, at column 1
StepRasterOf(h, w, gap) ==
    [r \in 1..h |->
        [c \in 1..w |->
            IF \/ (c = 1 /\ r - 1 < MIN_SEGMENT_LENGTH)
               \/ /\ c = 2
                  /\ r - 1 >= MIN_SEGMENT_LENGTH + gap
                  /\ r - 1 < 2 * MIN_SEGMENT_LENGTH + gap
            THEN 255 ELSE 0]]

\* the raster of Scenario A: 100 rows, one clean stripe on rows 10..90 that
\* drifts from column 50 to column 150
ScenarioARaster ==
    [r \in 1..100 |->
        [c \in 1..151 |->
            IF (r - 1) \in 10..90 /\ c - 1 = 50 + ((r - 11) * 100) \div 80
            THEN 255 ELSE 0]]

\* the captures of a rotation: one stripe run from row 0 on, absent, short, or
\* reaching into the trimmed rows
RunRasters ==
    { RasterOf(RunH, ImgW, <<<<0, n>>>>, 1) :
        n \in 0..(RunH - REMOVE_BOTTOM_ROWS + 1) }

\* a ScanLine of n samples as extract_coordinates emits it for n consecutive
\* rows at capture angle th
LineOf(n, th) ==
    [k \in 1..n |->
        Vertex((n - k) * HeightMicroPerPixel, Radians(th),
               (1 - CenterColumn) * RadialMicroPerPixel)]

\* theta_inc = 360.0 / angular_resolution, 1e-3 degree
ThetaInc == 360000 \div AngularResolution

NoCalls == [captures |-> 0, scans |-> 0, generate |-> 0, write |-> 0]

(***************************************************************************)
(* UltrasonicSensor.wait_for_part_placement.  A filtered distance is a     *)
(* whole number of centimetres; NoReading stands for None.                 *)
(***************************************************************************)

NoReading == -1

\* what get_filtered_distance can return: None, or a distance below, at or
\* above the threshold
FilteredDistances ==
    {NoReading, DetectionThreshold - 1, DetectionThreshold, DetectionThreshold + 1}

NoReadings == [approach |-> <<>>, retract |-> <<>>]

\* the last ConfirmationsRequired valid readings of a wait loop
KeepRecent(tail, dist) ==
    IF dist = NoReading THEN tail
    ELSE LET all == Append(tail, dist)
         IN  SubSeq(all, Max2(1, Len(all) - ConfirmationsRequired + 1), Len(all))

\* a retract loop whose else branch leaves confirm_count alone
RetractCountNoReset(count, dist) ==
    IF dist # NoReading /\ dist > DetectionThreshold THEN count + 1 ELSE count

\* the body of the loop that waits for the gripper to appear
ApproachCount(count, dist) ==
    IF dist # NoReading
    THEN IF dist < DetectionThreshold THEN count + 1 ELSE 0
    ELSE count

\* the body of the loop that waits for the gripper to retract
RetractCount(count, dist) ==
    IF dist # NoReading
    THEN IF dist > DetectionThreshold THEN count + 1 ELSE 0
    ELSE count

(***************************************************************************)
(* Scanner3D.run and perform_scan.                                         *)
(***************************************************************************)

\* the append without its guard
AppendAlways(buffer, line) == Append(buffer, line)

\* if coords: mesh_points.append(coords)
AppendIfAny(buffer, line) == IF Len(line) > 0 THEN Append(buffer, line) ELSE buffer

\* the rotation without its guard
RotatesAlways(step) == TRUE

\* if scan_step < angular_resolution - 1
RotatesAfter(step) == step < AngularResolution - 1

\* if not mesh_points
NoMeshPoints(buffer) == Len(buffer) = 0

\* the last two entries of a command log
LastTwo(log) == SubSeq(log, Max2(1, Len(log) - 1), Len(log))

Init ==
    /\ pc = "reset"
    /\ relay1 = FALSE
    /\ relay2 = FALSE
    /\ green_led = "off"
    /\ red_led = "off"
    /\ motor_log = <<>>
    /\ img = <<>>
    /\ processed_img = <<>>
    /\ bottom_row = -1
    /\ coords = <<>>
    /\ vertical_resolution = VerticalResolution
    /\ theta = 0
    /\ scan_step = 0
    /\ mesh_points = <<>>
    /\ points = <<>>
    /\ faces = <<>>
    /\ obj_file = "absent"
    /\ results = "none"
    /\ gpio_released = FALSE
    /\ error = "none"
    /\ sensor_pc = "idle"
    /\ confirm_count = 0
    /\ recent = NoReadings
    /\ lid_log = <<>>
    /\ raw_coords = <<>>
    /\ captured = <<>>
    /\ scan_input = <<>>
    /\ calls = NoCalls

\* relay1.off(); relay2.off() at the top of the loop
ResetOutputs ==
    /\ pc = "reset"
    /\ relay1' = FALSE
    /\ relay2' = FALSE
    /\ pc' = "wait_part"
    /\ motor_log' = <<>>
    /\ calls' = NoCalls
    /\ captured' = <<>>
    /\ scan_input' = <<>>
    /\ points' = <<>>
    /\ faces' = <<>>
    /\ mesh_points' = <<>>
    /\ results' = "none"
    /\ sensor_pc' = "approach"
    /\ confirm_count' = 0
    /\ recent' = NoReadings
    /\ UNCHANGED <<lid_log, raw_coords, green_led, red_led, img,
                   processed_img, bottom_row, coords, vertical_resolution,
                   theta, scan_step, obj_file, gpio_released, error>>

\* one pass of the loop that waits for the gripper to appear
PollApproach ==
    /\ pc = "wait_part"
    /\ sensor_pc = "approach"
    /\ confirm_count < ConfirmationsRequired
    /\ \E dist \in FilteredDistances :
           /\ confirm_count' = ApproachCount(confirm_count, dist)
           /\ recent' = [recent EXCEPT !.approach = KeepRecent(@, dist)]
    /\ UNCHANGED <<lid_log, pc, sensor_pc, raw_coords, relay1, relay2,
                   green_led, red_led, motor_log, img, processed_img,
                   bottom_row, coords, vertical_resolution, theta, scan_step,
                   mesh_points, points, faces, obj_file, results,
                   gpio_released, error, captured, scan_input, calls>>

\* the first loop ends; time.sleep(0.5); confirm_count = 0
GripperPresent ==
    /\ pc = "wait_part"
    /\ sensor_pc = "approach"
    /\ ~(confirm_count < ConfirmationsRequired)
    /\ sensor_pc' = "retract"
    /\ confirm_count' = 0
    /\ UNCHANGED <<lid_log, pc, recent, raw_coords, relay1, relay2, green_led,
                   red_led, motor_log, img, processed_img, bottom_row, coords,
                   vertical_resolution, theta, scan_step, mesh_points, points,
                   faces, obj_file, results, gpio_released, error, captured,
                   scan_input, calls>>

\* one pass of the loop that waits for the gripper to retract
PollRetract ==
    /\ pc = "wait_part"
    /\ sensor_pc = "retract"
    /\ confirm_count < ConfirmationsRequired
    /\ \E dist \in FilteredDistances :
           /\ confirm_count' = RetractCount(confirm_count, dist)
           /\ recent' = [recent EXCEPT !.retract = KeepRecent(@, dist)]
    /\ UNCHANGED <<lid_log, pc, sensor_pc, raw_coords, relay1, relay2,
                   green_led, red_led, motor_log, img, processed_img,
                   bottom_row, coords, vertical_resolution, theta, scan_step,
                   mesh_points, points, faces, obj_file, results,
                   gpio_released, error, captured, scan_input, calls>>

\* the second loop ends and sensor.wait_for_part_placement() returns;
\* time.sleep(5)
PartPlaced ==
    /\ pc = "wait_part"
    /\ sensor_pc = "retract"
    /\ ~(confirm_count < ConfirmationsRequired)
    /\ sensor_pc' = "returned"
    /\ pc' = "close_lid"
    /\ UNCHANGED <<lid_log, confirm_count, recent, raw_coords, relay1, relay2,
                   green_led, red_led, motor_log, img, processed_img,
                   bottom_row, coords, vertical_resolution, theta, scan_step,
                   mesh_points, points, faces, obj_file, results,
                   gpio_released, error, captured, scan_input, calls>>

\* motor2.rotate_angle(abs(lid_angle), rpm=lid_rpm, direction=1)
CloseLid ==
    /\ pc = "close_lid"
    /\ motor_log' = Append(motor_log, <<"motor2", 1>>)
    /\ lid_log' = LastTwo(Append(lid_log, 1))
    /\ pc' = "wait_switch"
    /\ sensor_pc' = "idle"
    /\ confirm_count' = 0
    /\ recent' = NoReadings
    /\ UNCHANGED <<raw_coords, relay1, relay2, green_led, red_led, img,
                   processed_img, bottom_row, coords, vertical_resolution,
                   theta, scan_step, mesh_points, points, faces, obj_file,
                   results, gpio_released, error, captured, scan_input, calls>>

\* switch.wait_for_press() returns; green_led.pulse(); perform_scan() starts
StartScan ==
    /\ pc = "wait_switch"
    /\ green_led' = "pulse"
    /\ mesh_points' = <<>>
    /\ theta' = 0
    /\ scan_step' = 0
    /\ pc' = "capture"
    /\ UNCHANGED <<lid_log, sensor_pc, confirm_count, recent, raw_coords,
                   relay1, relay2, red_led, motor_log, img, processed_img,
                   bottom_row, coords, vertical_resolution, points, faces,
                   obj_file, results, gpio_released, error, captured,
                   scan_input, calls>>

\* img = capture_image(), up to the thresholded red channel
Capture ==
    /\ pc = "capture"
    /\ \E raster \in RunRasters : img' = raster
    /\ calls' = [calls EXCEPT !.captures = @ + 1]
    /\ pc' = "process"
    /\ UNCHANGED <<lid_log, sensor_pc, confirm_count, recent, raw_coords,
                   relay1, relay2, green_led, red_led, motor_log,
                   processed_img, bottom_row, coords, vertical_resolution,
                   theta, scan_step, mesh_points, points, faces, obj_file,
                   results, gpio_released, error, captured, scan_input>>

\* processed_img, bottom_row = process_image(img)
Process ==
    /\ pc = "process"
    /\ processed_img' = ProcessImage(img).backG
    /\ bottom_row' = ProcessImage(img).bottom_row
    /\ pc' = "extract"
    /\ UNCHANGED <<lid_log, sensor_pc, confirm_count, recent, raw_coords,
                   relay1, relay2, green_led, red_led, motor_log, img, coords,
                   vertical_resolution, theta, scan_step, mesh_points, points,
                   faces, obj_file, results, gpio_released, error, captured,
                   scan_input, calls>>

\* coords = extract_coordinates(processed_img, bottom_row, theta)
Extract ==
    /\ pc = "extract"
    /\ coords' = ExtractCoordinates(processed_img, bottom_row, theta)
    /\ raw_coords' = coords'
    /\ pc' = "downsample"
    /\ UNCHANGED <<lid_log, sensor_pc, confirm_count, recent, relay1, relay2,
                   green_led, red_led, motor_log, img, processed_img,
                   bottom_row, vertical_resolution, theta, scan_step,
                   mesh_points, points, faces, obj_file, results,
                   gpio_released, error, captured, scan_input, calls>>

\* coords = downsample_coordinates(coords, vertical_resolution)
Downsample ==
    /\ pc = "downsample"
    /\ coords' = DownsampleCoordinates(coords, vertical_resolution)
    /\ pc' = "accumulate"
    /\ UNCHANGED <<lid_log, sensor_pc, confirm_count, recent, raw_coords,
                   relay1, relay2, green_led, red_led, motor_log, img,
                   processed_img, bottom_row, vertical_resolution, theta,
                   scan_step, mesh_points, points, faces, obj_file, results,
                   gpio_released, error, captured, scan_input, calls>>

\* if coords: mesh_points.append(coords); theta += theta_inc
Accumulate ==
    /\ pc = "accumulate"
    /\ mesh_points' = AppendIfAny(mesh_points, coords)
    /\ captured' = Append(captured, coords)
    /\ theta' = theta + ThetaInc
    /\ pc' = "rotate"
    /\ UNCHANGED <<lid_log, sensor_pc, confirm_count, recent, raw_coords,
                   relay1, relay2, green_led, red_led, motor_log, img,
                   processed_img, bottom_row, coords, vertical_resolution,
                   scan_step, points, faces, obj_file, results, gpio_released,
                   error, scan_input, calls>>

\* the end of the loop body: rotate unless this was the last capture, then
\* either the next capture or the return of perform_scan.  The locals of the
\* finished step are dead and are cleared.
Rotate ==
    /\ pc = "rotate"
    /\ motor_log' = IF RotatesAfter(scan_step)
                    THEN Append(motor_log, <<"motor1", 1>>)
                    ELSE motor_log
    /\ scan_step' = scan_step + 1
    /\ pc' = IF scan_step + 1 < AngularResolution THEN "capture" ELSE "check"
    /\ scan_input' = IF scan_step + 1 < AngularResolution THEN scan_input
                     ELSE mesh_points
    /\ calls' = IF scan_step + 1 < AngularResolution THEN calls
                ELSE [calls EXCEPT !.scans = @ + 1]
    /\ img' = <<>>
    /\ processed_img' = <<>>
    /\ bottom_row' = -1
    /\ coords' = <<>>
    /\ raw_coords' = <<>>
    /\ UNCHANGED <<lid_log, sensor_pc, confirm_count, recent, relay1, relay2,
                   green_led, red_led, vertical_resolution, theta,
                   mesh_points, points, faces, obj_file, results,
                   gpio_released, error, captured>>

\* if not mesh_points: green_led.off(); red_led.pulse(); continue
CheckMeshPoints ==
    /\ pc = "check"
    /\ IF NoMeshPoints(mesh_points)
       THEN /\ green_led' = "off"
            /\ red_led' = "pulse"
            /\ pc' = "reset"
       ELSE /\ pc' = "normalize"
            /\ UNCHANGED <<green_led, red_led>>
    /\ UNCHANGED <<lid_log, sensor_pc, confirm_count, recent, raw_coords,
                   relay1, relay2, motor_log, img, processed_img, bottom_row,
                   coords, vertical_resolution, theta, scan_step, mesh_points,
                   points, faces, obj_file, results, gpio_released, error,
                   captured, scan_input, calls>>

\* mesh_points = normalize_mesh_points(mesh_points)
Normalize ==
    /\ pc = "normalize"
    /\ LET normalized == normalize_mesh_points(mesh_points)
       IN  IF normalized.raised # "none"
           THEN /\ error' = normalized.raised
                /\ pc' = "finally"
                /\ UNCHANGED mesh_points
           ELSE /\ mesh_points' = normalized.rows
                /\ pc' = "generate"
                /\ UNCHANGED error
    /\ UNCHANGED <<lid_log, sensor_pc, confirm_count, recent, raw_coords,
                   relay1, relay2, green_led, red_led, motor_log, img,
                   processed_img, bottom_row, coords, vertical_resolution,
                   theta, scan_step, points, faces, obj_file, results,
                   gpio_released, captured, scan_input, calls>>

\* points, faces = generate_mesh(mesh_points); an IndexError leaves run()
GenerateMesh ==
    /\ pc = "generate"
    /\ calls' = [calls EXCEPT !.generate = @ + 1]
    /\ LET mesh == generate_mesh(mesh_points)
       IN  IF mesh.raised # "none"
           THEN /\ error' = mesh.raised
                /\ pc' = "finally"
                /\ UNCHANGED <<points, faces>>
           ELSE /\ points' = mesh.points
                /\ faces' = mesh.faces
                /\ pc' = "write"
                /\ UNCHANGED error
    /\ UNCHANGED <<lid_log, sensor_pc, confirm_count, recent, raw_coords,
                   relay1, relay2, green_led, red_led, motor_log, img,
                   processed_img, bottom_row, coords, vertical_resolution,
                   theta, scan_step, mesh_points, obj_file, results,
                   gpio_released, captured, scan_input>>

\* file_writer.write('scanned.obj', points, faces)
WriteFile ==
    /\ pc = "write"
    /\ obj_file' = "written"
    /\ calls' = [calls EXCEPT !.write = @ + 1]
    /\ pc' = "inspect"
    /\ UNCHANGED <<lid_log, sensor_pc, confirm_count, recent, raw_coords,
                   relay1, relay2, green_led, red_led, motor_log, img,
                   processed_img, bottom_row, coords, vertical_resolution,
                   theta, scan_step, mesh_points, points, faces, results,
                   gpio_released, error, captured, scan_input>>

\* QCInspector.inspect: the sizing of one signed difference, 1e-2 mm
Sizing(diff) ==
    IF Abs(diff) <= ToleranceCenti THEN "OK"
    ELSE IF diff > 0 THEN "OVERSIZE"
    ELSE "UNDERSIZE"

\* QCInspector.inspect: overall_sizing of the diameter and height differences
OverallSizing(diameter_diff, height_diff) ==
    LET sizing == {Sizing(diameter_diff), Sizing(height_diff)}
    IN  IF "UNDERSIZE" \in sizing THEN "UNDERSIZE"
        ELSE IF "OVERSIZE" \in sizing THEN "OVERSIZE"
        ELSE "NOMINAL"

\* signed differences between the scanned and the reference part, 1e-2 mm
Differences == {-200, -125, 0, 125, 200}

\* results = qc_inspector.inspect('reference.obj', 'scanned.obj')
Inspect ==
    /\ pc = "inspect"
    /\ \E dd \in Differences, hd \in Differences :
           results' = OverallSizing(dd, hd)
    /\ pc' = "open_lid"
    /\ UNCHANGED <<lid_log, sensor_pc, confirm_count, recent, raw_coords,
                   relay1, relay2, green_led, red_led, motor_log, img,
                   processed_img, bottom_row, coords, vertical_resolution,
                   theta, scan_step, mesh_points, points, faces, obj_file,
                   gpio_released, error, captured, scan_input, calls>>

\* motor2.rotate_angle(lid_angle, rpm=lid_rpm, direction=0)
OpenLid ==
    /\ pc = "open_lid"
    /\ motor_log' = Append(motor_log, <<"motor2", 0>>)
    /\ lid_log' = LastTwo(Append(lid_log, 0))
    /\ pc' = "signal"
    /\ UNCHANGED <<sensor_pc, confirm_count, recent, raw_coords, relay1,
                   relay2, green_led, red_led, img, processed_img, bottom_row,
                   coords, vertical_resolution, theta, scan_step, mesh_points,
                   points, faces, obj_file, results, gpio_released, error,
                   captured, scan_input, calls>>

\* the relay pair after the if/elif chain on overall_sizing
RelaysFor(sizing, r1, r2) ==
    IF sizing = "OK" THEN <<TRUE, TRUE>>
    ELSE IF sizing = "UNDERSIZE" THEN <<TRUE, FALSE>>
    ELSE IF sizing = "OVERSIZE" THEN <<FALSE, TRUE>>
    ELSE <<r1, r2>>

\* the signal to the PLC; green_led.off(); back to the top of the loop
Signal ==
    /\ pc = "signal"
    /\ relay1' = RelaysFor(results, relay1, relay2)[1]
    /\ relay2' = RelaysFor(results, relay1, relay2)[2]
    /\ green_led' = "off"
    /\ pc' = "reset"
    /\ UNCHANGED <<lid_log, sensor_pc, confirm_count, recent, raw_coords,
                   red_led, motor_log, img, processed_img, bottom_row, coords,
                   vertical_resolution, theta, scan_step, mesh_points, points,
                   faces, obj_file, results, gpio_released, error, captured,
                   scan_input, calls>>

\* Ctrl-C anywhere inside the try block
KeyboardInterrupt ==
    /\ pc \notin {"finally", "exited"}
    /\ error' = "KeyboardInterrupt"
    /\ pc' = "finally"
    /\ UNCHANGED <<lid_log, sensor_pc, confirm_count, recent, raw_coords,
                   relay1, relay2, green_led, red_led, motor_log, img,
                   processed_img, bottom_row, coords, vertical_resolution,
                   theta, scan_step, mesh_points, points, faces, obj_file,
                   results, gpio_released, captured, scan_input, calls>>

\* an exception of the environment inside the try block: the sensor or the
\* limit switch while waiting, libcamera-still during a capture, the file
\* system while writing scanned.obj, the mesh loader while inspecting
RaiseException ==
    /\ pc \in {"wait_part", "wait_switch", "capture", "write", "inspect"}
    /\ error' = "Exception"
    /\ pc' = "finally"
    /\ UNCHANGED <<lid_log, sensor_pc, confirm_count, recent, raw_coords,
                   relay1, relay2, green_led, red_led, motor_log, img,
                   processed_img, bottom_row, coords, vertical_resolution,
                   theta, scan_step, mesh_points, points, faces, obj_file,
                   results, gpio_released, captured, scan_input, calls>>

\* the finally block without its four calls
FinallyWithoutCleanup ==
    /\ pc = "finally"
    /\ pc' = "exited"
    /\ UNCHANGED <<lid_log, sensor_pc, confirm_count, recent, raw_coords,
                   relay1, relay2, green_led, red_led, motor_log, img,
                   processed_img, bottom_row, coords, vertical_resolution,
                   theta, scan_step, mesh_points, points, faces, obj_file,
                   results, error, gpio_released, captured, scan_input, calls>>

\* finally: motor1.stop(); motor2.stop(); motor1.cleanup(); motor2.cleanup()
Finally ==
    /\ pc = "finally"
    /\ gpio_released' = TRUE
    /\ pc' = "exited"
    /\ UNCHANGED <<lid_log, sensor_pc, confirm_count, recent, raw_coords,
                   relay1, relay2, green_led, red_led, motor_log, img,
                   processed_img, bottom_row, coords, vertical_resolution,
                   theta, scan_step, mesh_points, points, faces, obj_file,
                   results, error, captured, scan_input, calls>>

Next ==
    \/ ResetOutputs
    \/ PollApproach
    \/ GripperPresent
    \/ PollRetract
    \/ PartPlaced
    \/ CloseLid
    \/ StartScan
    \/ Capture
    \/ Process
    \/ Extract
    \/ Downsample
    \/ Accumulate
    \/ Rotate
    \/ CheckMeshPoints
    \/ Normalize
    \/ GenerateMesh
    \/ WriteFile
    \/ Inspect
    \/ OpenLid
    \/ Signal
    \/ KeyboardInterrupt
    \/ RaiseException
    \/ Finally

Spec == Init /\ [][Next]_vars

(***************************************************************************)
(* Specifications of single stages, started from drawn inputs.             *)
(***************************************************************************)

\* the capture angle of row i of a drawn rotation buffer, 1e-3 degree
ThetaOfRow(i) == (i - 1) * (360000 \div (MaxRows + 1))

\* rotation buffers as perform_scan returns them: 1..MaxRows non-empty
\* ScanLines of 1..MaxLen samples each
DrawnBuffers ==
    UNION { { [i \in 1..R |-> LineOf(lens[i], ThetaOfRow(i))] :
                lens \in [1..R -> 1..MaxLen] } : R \in 1..MaxRows }

\* run() after perform_scan returned a non-empty buffer
InitMesh ==
    /\ pc = "normalize"
    /\ mesh_points \in DrawnBuffers
    /\ scan_input = mesh_points
    /\ captured = mesh_points
    /\ calls = [NoCalls EXCEPT !.scans = 1, !.captures = Len(mesh_points)]
    /\ relay1 = FALSE
    /\ relay2 = FALSE
    /\ green_led = "pulse"
    /\ red_led = "off"
    /\ motor_log = <<>>
    /\ img = <<>>
    /\ processed_img = <<>>
    /\ bottom_row = -1
    /\ coords = <<>>
    /\ raw_coords = <<>>
    /\ vertical_resolution = VerticalResolution
    /\ theta = 0
    /\ scan_step = 0
    /\ points = <<>>
    /\ faces = <<>>
    /\ obj_file = "absent"
    /\ results = "none"
    /\ gpio_released = FALSE
    /\ error = "none"
    /\ sensor_pc = "idle"
    /\ confirm_count = 0
    /\ recent = NoReadings
    /\ lid_log = <<1>>

NextMesh == Normalize \/ GenerateMesh \/ WriteFile

SpecMesh == InitMesh /\ [][NextMesh]_vars

\* ScanLine lengths and vertical resolutions drawn for the downsampler,
\* with the 200-sample line at resolution 20
DownInputs == ((0..MaxN) \X (1..MaxV)) \cup {<<200, 20>>}

\* perform_scan after extract_coordinates returned
InitDown ==
    /\ pc = "downsample"
    /\ \E nv \in DownInputs :
           /\ coords = LineOf(nv[1], 0)
           /\ vertical_resolution = nv[2]
    /\ raw_coords = coords
    /\ calls = [NoCalls EXCEPT !.captures = 1]
    /\ relay1 = FALSE
    /\ relay2 = FALSE
    /\ green_led = "pulse"
    /\ red_led = "off"
    /\ motor_log = <<>>
    /\ img = <<>>
    /\ processed_img = <<>>
    /\ bottom_row = -1
    /\ theta = 0
    /\ scan_step = 0
    /\ mesh_points = <<>>
    /\ points = <<>>
    /\ faces = <<>>
    /\ obj_file = "absent"
    /\ results = "none"
    /\ gpio_released = FALSE
    /\ error = "none"
    /\ sensor_pc = "idle"
    /\ confirm_count = 0
    /\ recent = NoReadings
    /\ lid_log = <<1>>
    /\ captured = <<>>
    /\ scan_input = <<>>

NextDown == Downsample

SpecDown == InitDown /\ [][NextDown]_vars

\* lengths of the stripe runs drawn for process_image: noise, borderline, real
RunLens == {1, 3, MIN_SEGMENT_LENGTH - 1, MIN_SEGMENT_LENGTH, 40}

\* run lists <<start, len>>: up to three runs, each 1..MaxGap absent rows
\* after the one before (the first 0..MaxGap-1 rows from the top)
RunLists ==
    LET one == { <<<<g - 1, n>>>> : g \in 1..MaxGap, n \in RunLens }
        more(ls) == { Append(l, <<l[Len(l)][1] + l[Len(l)][2] + g, n>>) :
                        l \in ls, g \in 1..MaxGap, n \in RunLens }
    IN  {<<>>} \cup one \cup more(one) \cup more(more(one))

\* the rasters drawn for process_image: thin stripes, stripes two pixels
\* wide, stripes that change column, a stripe that lies in the trimmed rows
\* only, and the raster of Scenario A
ImgRasters ==
    { RasterOf(ImgH, ImgW, runs, 1) : runs \in RunLists }
    \cup { WideRasterOf(ImgH, ImgW, runs, {0, 1}) :
              runs \in { l \in RunLists : Len(l) = 1 } }
    \cup { StepRasterOf(ImgH, ImgW, gap) : gap \in 0..MaxGap }
    \cup { RasterOf(ImgH, ImgW, <<<<ImgH - REMOVE_BOTTOM_ROWS + 1, 3>>>>, 1) }
    \cup { ScenarioARaster }

\* perform_scan after capture_image returned, at the first capture
InitImg ==
    /\ pc = "process"
    /\ img \in ImgRasters
    /\ calls = [NoCalls EXCEPT !.captures = 1]
    /\ relay1 = FALSE
    /\ relay2 = FALSE
    /\ green_led = "pulse"
    /\ red_led = "off"
    /\ motor_log = <<>>
    /\ processed_img = <<>>
    /\ bottom_row = -1
    /\ coords = <<>>
    /\ raw_coords = <<>>
    /\ vertical_resolution = VerticalResolution
    /\ theta = 0
    /\ scan_step = 0
    /\ mesh_points = <<>>
    /\ points = <<>>
    /\ faces = <<>>
    /\ obj_file = "absent"
    /\ results = "none"
    /\ gpio_released = FALSE
    /\ error = "none"
    /\ sensor_pc = "idle"
    /\ confirm_count = 0
    /\ recent = NoReadings
    /\ lid_log = <<1>>
    /\ captured = <<>>
    /\ scan_input = <<>>

NextImg == Process \/ Extract \/ Downsample

SpecImg == InitImg /\ [][NextImg]_vars

(***************************************************************************)
(* Properties.                                                             *)
(***************************************************************************)

FaceSet == {faces[i] : i \in 1..Len(faces)}

\* the faces that join the last of R rows of L points to the first row
WrapFaces(R, L) ==
    { Face(k, (R - 1) * L + k, k + 1) : k \in 1..(L - 1) }
    \cup { Face(k + 1, (R - 1) * L + k, (R - 1) * L + k + 1) : k \in 1..(L - 1) }

\* C1: for R rows of L points each, generate_mesh returns exactly 2*(L-1)*R
\* faces, and among them the faces that connect the last row back to the first.
C1_MeshClosure ==
    pc \in {"write", "inspect"} =>
        LET R == Len(mesh_points)
            L == Len(mesh_points[1])
        IN  /\ Len(faces) = 2 * (L - 1) * R
            /\ WrapFaces(R, L) \subseteq FaceSet

\* C2: every face generate_mesh returns to run() has its three vertex indices
\* within 1..(number of vertices returned).
C2_FaceIndicesInRange ==
    \A i \in 1..Len(faces) :
        /\ faces[i].v1 \in 1..Len(points)
        /\ faces[i].v2 \in 1..Len(points)
        /\ faces[i].v3 \in 1..Len(points)

C2_Witness ==
    /\ pc = "write"
    /\ calls.generate = 1
    /\ Len(mesh_points) >= 3
    /\ Len(faces) > 0

\* fewer than two angular rows, or fewer than two points in some row
Degenerate(rows) ==
    \/ Len(rows) < 2
    \/ \E i \in 1..Len(rows) : Len(rows[i]) < 2

\* C3: when the normalized rotation buffer is degenerate, mesh generation
\* fails with an error before any vertex, face or OBJ file is produced.
C3_DegenerateRejected ==
    (calls.generate = 1 /\ Degenerate(mesh_points)) =>
        /\ error \notin {"none", "KeyboardInterrupt"}
        /\ points = <<>>
        /\ faces = <<>>
        /\ calls.write = 0

ShortestInput == SeqMin([i \in 1..Len(scan_input) |-> Len(scan_input[i])])

\* C4 as claimed: normalize_mesh_points cuts every ScanLine to the length of
\* the shortest one, keeps every row's first and last sample, and leaves no row
\* that had two samples or more with fewer than two.
C4_Original ==
    pc = "generate" =>
        \A i \in 1..Len(mesh_points) :
            LET before == scan_input[i]
                after == mesh_points[i]
            IN  /\ Len(after) = ShortestInput
                /\ after[1] = before[1]
                /\ after[Len(after)] = before[Len(before)]
                /\ (Len(before) >= 2 => Len(after) >= 2)

\* C4 as amended: normalize_mesh_points cuts every ScanLine to the length of
\* the shortest one; when the shortest has two samples or more, every row keeps
\* its first and its last sample (the leading samples and the last one are
\* kept, in order) and has at least two samples; when the shortest has one
\* sample, every row is cut down to its last sample alone.
C4_Amended ==
    pc = "generate" =>
        \A i \in 1..Len(mesh_points) :
            LET before == scan_input[i]
                after == mesh_points[i]
            IN  /\ Len(after) = ShortestInput
                /\ after[Len(after)] = before[Len(before)]
                /\ \A k \in 1..(Len(after) - 1) : after[k] = before[k]
                /\ (ShortestInput >= 2 => (after[1] = before[1] /\ Len(after) >= 2))
                /\ (ShortestInput = 1 => after = <<before[Len(before)]>>)

C4_Witness ==
    /\ pc = "generate"
    /\ ShortestInput >= 2
    /\ \E i \in 1..Len(mesh_points) : Len(scan_input[i]) >= Len(mesh_points[i]) + 2

\* the rows of a raster that carry a detection after the bottom trim
DetectedRows(raster) ==
    { r \in 0..(Len(raster) - 1) :
        /\ r < Max2(0, Len(raster) - REMOVE_BOTTOM_ROWS)
        /\ \E c \in 1..Len(raster[r + 1]) : raster[r + 1][c] # 0 }

\* the length of the maximal run of rows of D that contains r
RunLength(D, r) ==
    LET lo == CHOOSE a \in D : a <= r /\ (a..r) \subseteq D /\ (a - 1) \notin D
        hi == CHOOSE b \in D : b >= r /\ (r..b) \subseteq D /\ (b + 1) \notin D
    IN  hi - lo + 1

SetMax(S) == CHOOSE m \in S : \A x \in S : x <= m

\* C5: bottom_row is the maximum end row among the surviving segments; when
\* none survives, the lowest detected row; when no row has a detection, the
\* last raster row.
C5_BottomRow ==
    pc = "extract" =>
        LET D == DetectedRows(img)
            S == { r \in D : RunLength(D, r) >= MIN_SEGMENT_LENGTH }
        IN  bottom_row = IF S # {} THEN SetMax(S)
                         ELSE IF D # {} THEN SetMax(D)
                         ELSE Len(img) - 1

\* C6: for a ScanLine of N >= 2 samples and any vertical resolution, the
\* downsampled line contains the first and the last original sample and has
\* at most N samples.
C6_Endpoints ==
    (pc = "accumulate" /\ Len(raw_coords) >= 2) =>
        /\ \E j \in 1..Len(coords) : coords[j] = raw_coords[1]
        /\ \E j \in 1..Len(coords) : coords[j] = raw_coords[Len(raw_coords)]
        /\ Len(coords) <= Len(raw_coords)

C6_Witness ==
    /\ pc = "accumulate"
    /\ Len(raw_coords) >= 2
    /\ Len(raw_coords) \div vertical_resolution >= 2
    /\ Len(coords) < Len(raw_coords)

\* the j-th smallest element of a finite set of integers
NthOf(S, j) == CHOOSE i \in S : Cardinality({m \in S : m < i}) = j - 1

\* C7: the downsampler returns the empty line for N = 0, the input unchanged
\* when N div V = 0, and otherwise exactly the samples at the indices 0, the
\* positive multiples of the interval below N-1, and N-1, each once, ascending.
C7_Selection ==
    pc = "accumulate" =>
        LET N == Len(raw_coords)
            interval == N \div vertical_resolution
            S == {0} \cup {i \in 1..(N - 2) : i % interval = 0} \cup {N - 1}
        IN  IF N = 0 THEN coords = <<>>
            ELSE IF interval = 0 THEN coords = raw_coords
            ELSE /\ Len(coords) = Cardinality(S)
                 /\ \A j \in 1..Len(coords) : coords[j] = raw_coords[NthOf(S, j) + 1]

RotationOver ==
    /\ calls.scans = 1
    /\ \/ pc = "reset"
       \/ (pc \in {"finally", "exited"}
           /\ error \notin {"none", "KeyboardInterrupt", "Exception"})

\* C9: a rotation without any usable ScanLine ends rejected, generate_mesh and
\* the OBJ writer never being called for it; every other rotation ends
\* assembled, with exactly one mesh generated and written.
C9_TerminalState ==
    RotationOver =>
        IF scan_input = <<>>
        THEN calls.generate = 0 /\ calls.write = 0 /\ points = <<>> /\ faces = <<>>
        ELSE calls.generate = 1 /\ calls.write = 1 /\ error = "none"

NonEmpty(line) == Len(line) > 0

\* C10: an empty ScanLine is skipped without ending the rotation: perform_scan
\* makes all angular_resolution captures and returns exactly the non-empty
\* ScanLines, once each, in capture order, their angles strictly increasing.
C10_EmptySkipped ==
    /\ pc \in {"capture", "process", "extract", "downsample", "accumulate",
               "rotate", "check"}
           => mesh_points = SelectSeq(captured, NonEmpty)
    /\ calls.scans = 1 =>
           /\ calls.captures = AngularResolution
           /\ Len(captured) = AngularResolution
           /\ scan_input = SelectSeq(captured, NonEmpty)
           /\ \A i \in 1..Len(scan_input) : \A j \in 1..Len(scan_input) :
                  i < j => scan_input[i][1].y < scan_input[j][1].y

C10_Witness ==
    /\ pc = "check"
    /\ calls.scans = 1
    /\ captured[1] # <<>>
    /\ captured[2] = <<>>
    /\ captured[AngularResolution] # <<>>

\* the segments process_image keeps for the current raster
SegmentsOf(raster) ==
    ValidSegments(FindSequences(RemoveBottomRows(DetectedCols(raster))))

\* C11: the segments process_image keeps are in ascending row order and do
\* not overlap, each is a maximal contiguous run of detected rows, and together
\* they cover exactly the detected rows (after the bottom trim) that lie in a
\* run of at least MIN_SEGMENT_LENGTH rows.
C11_Segments ==
    pc = "extract" =>
        LET segs == SegmentsOf(img)
            D == DetectedRows(img)
        IN  /\ \A i \in 1..Len(segs) :
                   /\ segs[i][1] <= segs[i][2]
                   /\ (segs[i][1]..segs[i][2]) \subseteq D
                   /\ (segs[i][1] - 1) \notin D
                   /\ (segs[i][2] + 1) \notin D
                   /\ i < Len(segs) => segs[i][2] < segs[i + 1][1]
            /\ UNION { segs[i][1]..segs[i][2] : i \in 1..Len(segs) }
                   = { r \in D : RunLength(D, r) >= MIN_SEGMENT_LENGTH }

C11_Witness ==
    /\ pc = "extract"
    /\ Len(SegmentsOf(img)) >= 2
    /\ \E r \in DetectedRows(img) :
           RunLength(DetectedRows(img), r) = MIN_SEGMENT_LENGTH - 1
    /\ \E r \in DetectedRows(img) :
           RunLength(DetectedRows(img), r) = MIN_SEGMENT_LENGTH

\* the detected rows that lie in a run shorter than MIN_SEGMENT_LENGTH
NoiseRows(raster) ==
    { r \in DetectedRows(raster) :
        RunLength(DetectedRows(raster), r) < MIN_SEGMENT_LENGTH }

\* C12: no row of a run shorter than MIN_SEGMENT_LENGTH is marked in the
\* raster process_image returns, and extract_coordinates emits no sample for
\* such a row.
C12_NoiseDiscarded ==
    /\ pc \in {"extract", "downsample"} =>
           \A r \in NoiseRows(img) :
               \A c \in 1..Len(processed_img[r + 1]) : processed_img[r + 1][c] = 0
    /\ pc = "downsample" =>
           \A r \in NoiseRows(img) :
               \A j \in 1..Len(raw_coords) :
                   raw_coords[j].x # (bottom_row - r) * HeightMicroPerPixel

\* the rows of the processed raster that carry a mark, at or above bottom
MarkedRows(img_rows, bottom) ==
    { r \in 0..(Len(img_rows) - 1) :
        /\ r <= bottom
        /\ \E c \in 1..Len(img_rows[r + 1]) : img_rows[r + 1][c] = 1 }

\* the column of the first mark of row r
FirstMark(img_rows, r) ==
    (CHOOSE c \in 1..Len(img_rows[r + 1]) :
        /\ img_rows[r + 1][c] = 1
        /\ \A d \in 1..(c - 1) : img_rows[r + 1][d] # 1) - 1

\* extract_coordinates emits one sample for exactly the marked rows r with
\* r <= bottom_row, in ascending row order, with height_px = bottom_row - r
\* and radial_px = c - center_column
ExtractContract ==
    pc = "downsample" =>
        LET M == MarkedRows(processed_img, bottom_row)
        IN  /\ Len(raw_coords) = Cardinality(M)
            /\ \A j \in 1..Len(raw_coords) :
                   LET r == NthOf(M, j)
                   IN  raw_coords[j] =
                           Vertex((bottom_row - r) * HeightMicroPerPixel,
                                  Radians(theta),
                                  (FirstMark(processed_img, r) - CenterColumn)
                                      * RadialMicroPerPixel)

\* C13: extract_coordinates emits one sample for exactly the rows r that have
\* a valid column c and r <= bottom_row, with height_px = bottom_row - r and
\* radial_px = c - center_column, in ascending row order; on the raster of
\* Scenario A bottom_row is 90 and 81 samples are emitted.
C13_Extraction ==
    /\ ExtractContract
    /\ (pc = "downsample" /\ img = ScenarioARaster) =>
           (bottom_row = 90 /\ Len(raw_coords) = 81)

\* C17: the row-detection array has one entry per raster row: the column of
\* the first nonzero pixel of the row, or -1 when the row is entirely zero.
C17_RowDetection ==
    pc = "extract" =>
        LET d == DetectedCols(img)
        IN  /\ Len(d) = Len(img)
            /\ \A r \in 1..Len(img) :
                   IF \A c \in 1..Len(img[r]) : img[r][c] = 0
                   THEN d[r] = -1
                   ELSE /\ d[r] \in 0..(Len(img[r]) - 1)
                        /\ img[r][d[r] + 1] # 0
                        /\ \A c \in 1..d[r] : img[r][c] = 0

C17_Witness ==
    /\ pc = "extract"
    /\ \E r \in 1..Len(img) : \A c \in 1..Len(img[r]) : img[r][c] # 0
    /\ \E r \in 1..Len(img) : \A c \in 1..Len(img[r]) : img[r][c] = 0
    /\ \E r \in 1..Len(processed_img) : processed_img[r][1] = 1

\* C14: for R rows of L points generate_mesh returns exactly R*L vertices,
\* the vertex with id i*L+k+1 being the Cartesian projection of sample k of
\* row i (both 0-based), and every face index is one of these ids.
C14_VertexNumbering ==
    pc \in {"write", "inspect"} =>
        LET R == Len(mesh_points)
            L == Len(mesh_points[1])
        IN  /\ Len(points) = R * L
            /\ \A i \in 0..(R - 1) : \A k \in 0..(L - 1) :
                   /\ i * L + k + 1 \in 1..Len(points)
                   /\ points[i * L + k + 1]
                          = cylindrical_to_cartesian(mesh_points[i + 1][k + 1])
            /\ \A f \in FaceSet : {f.v1, f.v2, f.v3} \subseteq 1..(R * L)

\* the two triangles of the quad between previous row p and current row c
\* (1-based rows of L points) at the columns k, k+1
QuadTriangles(L, p, c, k) ==
    { Face((c - 1) * L + k, (p - 1) * L + k, (c - 1) * L + k + 1),
      Face((c - 1) * L + k + 1, (p - 1) * L + k, (p - 1) * L + k + 1) }

\* C18: the faces generate_mesh returns are exactly, for every pair of
\* adjacent rows p, c and adjacent columns k, k+1, the two triangles
\* (c[k], p[k], c[k+1]) and (c[k+1], p[k], p[k+1]), and the same two with the
\* last row as p and the first row as c, each emitted once.
C18_QuadTriangles ==
    pc \in {"write", "inspect"} =>
        LET R == Len(mesh_points)
            L == Len(mesh_points[1])
            between == UNION { QuadTriangles(L, c - 1, c, k) :
                                 c \in 2..R, k \in 1..(L - 1) }
            closure == IF R >= 2
                       THEN UNION { QuadTriangles(L, R, 1, k) : k \in 1..(L - 1) }
                       ELSE {}
        IN  /\ FaceSet = between \cup closure
            /\ Len(faces) = Cardinality(between \cup closure)

C18_Witness ==
    /\ pc = "write"
    /\ Len(mesh_points) = MaxRows
    /\ Len(mesh_points[1]) >= 3
    /\ Face(1, (MaxRows - 1) * Len(mesh_points[1]) + 1, 2) \in FaceSet

IsTableRotation(cmd) == cmd[1] = "motor1"

\* the rotate_angle calls made on the table motor in this loop iteration
TableRotations == Len(SelectSeq(motor_log, IsTableRotation))

\* C15: the table is rotated once after every capture but the last, which
\* makes angular_resolution - 1 rotations per scan; the rotation of a step
\* comes after the capture and the processing of that step and before the next
\* capture, so at every capture exactly one rotation per earlier capture has
\* been made.
C15_RotateOncePerStep ==
    /\ pc = "capture" =>
           (calls.captures = scan_step /\ TableRotations = scan_step)
    /\ pc \in {"process", "extract", "downsample", "accumulate", "rotate"} =>
           (calls.captures = scan_step + 1 /\ TableRotations = scan_step)
    /\ calls.scans = 1 =>
           /\ calls.captures = AngularResolution
           /\ TableRotations = AngularResolution - 1

C15_Witness ==
    /\ pc = "check"
    /\ calls.scans = 1
    /\ calls.captures = AngularResolution
    /\ TableRotations = AngularResolution - 1
    /\ TableRotations >= 1

\* C16: run() is left only through its finally block: every exception,
\* KeyboardInterrupt included, leads there, the motors are stopped and the GPIO
\* released before run() exits, and a rotation that was aborted before
\* perform_scan returned produces no mesh and no OBJ file.
C16_CleanupOnExit ==
    /\ error # "none" => pc \in {"finally", "exited"}
    /\ pc = "exited" => (gpio_released /\ error # "none")
    /\ gpio_released => pc = "exited"
    /\ (pc \in {"finally", "exited"} /\ calls.scans = 0) =>
           /\ calls.generate = 0
           /\ calls.write = 0
           /\ points = <<>>
           /\ faces = <<>>

C16_Witness ==
    /\ pc = "exited"
    /\ gpio_released
    /\ error = "Exception"
    /\ calls.scans = 0
    /\ calls.captures >= 2
    /\ Len(mesh_points) >= 1

\* the number of readings at the end of tail that are below the threshold
TrailingBelow(tail) ==
    CHOOSE n \in 0..Len(tail) :
        /\ \A i \in (Len(tail) - n + 1)..Len(tail) : tail[i] < DetectionThreshold
        /\ n < Len(tail) => ~(tail[Len(tail) - n] < DetectionThreshold)

\* the number of readings at the end of tail that are above the threshold
TrailingAbove(tail) ==
    CHOOSE n \in 0..Len(tail) :
        /\ \A i \in (Len(tail) - n + 1)..Len(tail) : tail[i] > DetectionThreshold
        /\ n < Len(tail) => ~(tail[Len(tail) - n] > DetectionThreshold)

\* C19: wait_for_part_placement returns only when the last
\* confirmations_required valid readings of its first loop were all strictly
\* below the threshold and, after them, the last confirmations_required valid
\* readings of its second loop all strictly above it; in either loop
\* confirm_count is the number of valid readings on the awaited side since the
\* last valid reading on the other side, failed readings not counting.
C19_PartPlacement ==
    /\ sensor_pc = "returned" =>
           /\ Len(recent.approach) = ConfirmationsRequired
           /\ \A i \in 1..Len(recent.approach) :
                  recent.approach[i] < DetectionThreshold
           /\ Len(recent.retract) = ConfirmationsRequired
           /\ \A i \in 1..Len(recent.retract) :
                  recent.retract[i] > DetectionThreshold
    /\ sensor_pc = "approach" => confirm_count = TrailingBelow(recent.approach)
    /\ sensor_pc = "retract" =>
           /\ confirm_count = TrailingAbove(recent.retract)
           /\ TrailingBelow(recent.approach) = ConfirmationsRequired
    /\ pc = "close_lid" => sensor_pc = "returned"

C19_Witness ==
    /\ pc = "close_lid"
    /\ sensor_pc = "returned"
    /\ confirm_count = ConfirmationsRequired
    /\ recent.approach[1] < DetectionThreshold
    /\ recent.retract[1] > DetectionThreshold

\* C20: when the signalling of a completed QC cycle is done, the relay pair
\* encodes the verdict: all within tolerance -> relay1 on, relay2 on;
\* UNDERSIZE -> relay1 on, relay2 off; OVERSIZE -> relay1 off, relay2 on; so at
\* least one relay is on.
C20_RelayVerdict ==
    (pc = "reset" /\ results # "none") =>
        /\ results = "NOMINAL" => (relay1 /\ relay2)
        /\ results = "UNDERSIZE" => (relay1 /\ ~relay2)
        /\ results = "OVERSIZE" => (~relay1 /\ relay2)
        /\ relay1 \/ relay2

\* C21: every lid-close command (motor2, direction 1) is followed by a
\* lid-open command (motor2, direction 0) before the next lid-close command:
\* the lid motor is never commanded to close twice in a row.
C21_LidCloseThenOpen == lid_log # <<1, 1>>

\* C22: whenever a row carries a detection after the bottom trim, bottom_row
\* is such a row; every non-empty ScanLine has heights >= 0 that strictly
\* decrease along the line and end at exactly 0, and downsample_coordinates
\* keeps that zero-height sample as its last element.
C22_Heights ==
    /\ (pc = "extract" /\ DetectedRows(img) # {}) =>
           bottom_row \in DetectedRows(img)
    /\ (pc \in {"downsample", "accumulate"} /\ raw_coords # <<>>) =>
           /\ \A j \in 1..Len(raw_coords) : raw_coords[j].x >= 0
           /\ \A j \in 1..(Len(raw_coords) - 1) :
                  raw_coords[j].x > raw_coords[j + 1].x
           /\ raw_coords[Len(raw_coords)].x = 0
    /\ (pc = "accumulate" /\ raw_coords # <<>>) =>
           /\ coords # <<>>
           /\ coords[Len(coords)] = raw_coords[Len(raw_coords)]
           /\ coords[Len(coords)].x = 0

C22_Witness ==
    /\ pc = "accumulate"
    /\ Len(coords) >= 2
    /\ coords[Len(coords)].x = 0
    /\ \E r \in DetectedRows(img) : r > bottom_row
    /\ \E r \in NoiseRows(img) : r < bottom_row

DirectedEdges(f) == {<<f.v1, f.v2>>, <<f.v2, f.v3>>, <<f.v3, f.v1>>}

\* the number of faces that traverse the edge from a to b
Traversals(a, b) ==
    Cardinality({ i \in 1..Len(faces) : <<a, b>> \in DirectedEdges(faces[i]) })

\* an edge between two rows at column 0 or at column L-1
IsRimEdge(a, b, L) ==
    /\ (a - 1) % L = (b - 1) % L
    /\ (a - 1) % L \in {0, L - 1}

\* C24: in a mesh of R >= 3 rows of L >= 2 points every edge of a face that
\* is not a rim edge is shared by exactly two faces, which traverse it in
\* opposite directions, and every rim edge (between two adjacent rows, the
\* last and the first included, at column 0 or L-1) belongs to one face.
C24_EdgeManifold ==
    (pc \in {"write", "inspect"} /\ Len(mesh_points) >= 3
        /\ Len(mesh_points[1]) >= 2) =>
        LET R == Len(mesh_points)
            L == Len(mesh_points[1])
        IN  /\ \A f \in FaceSet : \A e \in DirectedEdges(f) :
                   IF IsRimEdge(e[1], e[2], L)
                   THEN Traversals(e[1], e[2]) + Traversals(e[2], e[1]) = 1
                   ELSE Traversals(e[1], e[2]) = 1 /\ Traversals(e[2], e[1]) = 1
            /\ \A i \in 1..R : \A col \in {1, L} :
                   LET a == (i - 1) * L + col
                       b == (i % R) * L + col
                   IN  Traversals(a, b) + Traversals(b, a) = 1

C24_Witness ==
    /\ pc = "write"
    /\ Len(mesh_points) = 3
    /\ Len(mesh_points[1]) = MaxLen
    /\ Traversals(MaxLen + 2, 2) = 1
    /\ Traversals(2, MaxLen + 2) = 1

====
